---- MODULE Spec2Model ----
(***************************************************************************)
(* State-machine model of the genai_music_chat grounding engine:           *)
(* Bot._extract_citations (core.py), compare_strings (utils.py) and the    *)
(* chat operation of BotOpenAI, BotOpenAIFC (openai.py) and BotPaLM        *)
(* (palm.py).                                                              *)
(*                                                                         *)
(* A Python str is a sequence of one-character strings.  None is the       *)
(* one-element sequence <<"None">>, which no str of the model equals.      *)
(* Similarities are integer percentages (fuzzywuzzy returns an int in      *)
(* 0..100 and compare_strings divides it by 100.0); thresholds are kept    *)
(* in the same unit, so  similarity >= threshold  is compared on integers. *)
(***************************************************************************)
EXTENDS Integers, Sequences, FiniteSets, TLC

(***************************************************************************)
(* Bounds of the model.                                                    *)
(***************************************************************************)
MaxParts == 3      \* parts of the longest reply text drawn for _extract_citations
MaxCorpus == 2     \* longest corpus drawn for _extract_citations
MaxCalls == 2      \* chat calls made in one behaviour
MaxLen == 3        \* longest string drawn for compare_strings
MaxParams == 3     \* longest parameter list drawn for FunctionCalling.__json__

(***************************************************************************)
(* Python values.                                                          *)
(***************************************************************************)
None == <<"None">>
DQ == "\""
SQ == "'"
SP == " "
NL == "\n"

IsNone(v) == v = None

Min(a, b) == IF a <= b THEN a ELSE b

\* str.lower() on the characters of the model
LowerChar(c) == IF c = "A" THEN "a" ELSE IF c = "B" THEN "b" ELSE c
Lower(s) == [i \in 1..Len(s) |-> LowerChar(s[i])]

\* s[lo:hi] with 0-based, half-open Python slice bounds (clamped)
Slice(s, lo, hi) ==
    LET h == Min(hi, Len(s))
    IN  IF lo >= h THEN <<>> ELSE [i \in 1..(h - lo) |-> s[lo + i]]

\* '"' in s
HasQuote(s) == \E i \in 1..Len(s) : s[i] = DQ

\* s.replace(old, new) for one-character old and new
ReplaceChar(s, old, new) == [i \in 1..Len(s) |-> IF s[i] = old THEN new ELSE s[i]]

IsSpace(c) == c = SP \/ c = NL

\* s.split(): the maximal runs of non-whitespace characters, left to right
Flush(cur) == IF cur = <<>> THEN <<>> ELSE <<cur>>
RECURSIVE SplitFrom(_, _, _)
SplitFrom(s, p, cur) ==
    IF p > Len(s) THEN Flush(cur)
    ELSE (IF IsSpace(s[p]) THEN Flush(cur) ELSE <<>>)
         \o SplitFrom(s, p + 1, IF IsSpace(s[p]) THEN <<>> ELSE Append(cur, s[p]))
Split(s) == SplitFrom(s, 1, <<>>)

\* " ".join(words)
RECURSIVE JoinSpace(_)
JoinSpace(words) ==
    IF Len(words) <= 1 THEN (IF words = <<>> THEN <<>> ELSE words[1])
    ELSE words[1] \o <<SP>> \o JoinSpace(Tail(words))

\* " ".join(s.replace("\n", " ").split())
Normalise(s) == JoinSpace(Split(ReplaceChar(s, NL, SP)))

\* re.findall(r'"([^"]*)"', s): scan from position p; at an opening quote
\* take [^"]* greedily and require a closing quote, else move on one place
RECURSIVE NextQuote(_, _)
NextQuote(s, p) == IF p > Len(s) THEN 0 ELSE IF s[p] = DQ THEN p ELSE NextQuote(s, p + 1)

\* the place of the closing quote of a match that starts at p, 0 for no match
MatchAt(s, p) == IF s[p] # DQ THEN 0 ELSE NextQuote(s, p + 1)

RECURSIVE FindAllFrom(_, _)
\* variant of FindAllStep: the scan goes on at the closing quote of a match
FindAllStep_Overlapping(s, p, q) ==
    (IF q = 0 THEN <<>> ELSE <<Slice(s, p, q - 1)>>)
    \o FindAllFrom(s, IF q = 0 THEN p + 1 ELSE q)

FindAllStep(s, p, q) ==
    (IF q = 0 THEN <<>> ELSE <<Slice(s, p, q - 1)>>)
    \o FindAllFrom(s, IF q = 0 THEN p + 1 ELSE q + 1)
FindAllFrom(s, p) == IF p > Len(s) THEN <<>> ELSE FindAllStep(s, p, MatchAt(s, p))
FindAll(s) == FindAllFrom(s, 1)

(***************************************************************************)
(* difflib.SequenceMatcher, as used by fuzzywuzzy.fuzz (no junk, strings   *)
(* shorter than the autojunk limit).  Positions are 0-based; a block is    *)
(* <<i, j, k>>: a[i:i+k] = b[j:j+k].                                       *)
(***************************************************************************)
\* length of the common run of a[i:ahi] and b[j:bhi]
RunOf(a, b, i, j, n) ==
    CHOOSE k \in 0..n :
        /\ \A m \in 1..k : a[i + m] = b[j + m]
        /\ k = n \/ a[i + k + 1] # b[j + k + 1]
RunLen(a, b, i, j, ahi, bhi) == RunOf(a, b, i, j, Min(ahi - i, bhi - j))

\* c is at least as good a block as d: longer, or as long and earlier in a,
\* or as long, at the same place in a, and not later in b
BlockBeats(c, d) ==
    \/ c[3] > d[3]
    \/ c[3] = d[3] /\ c[1] < d[1]
    \/ c[3] = d[3] /\ c[1] = d[1] /\ c[2] <= d[2]

BestBlock(blocks, alo, blo) ==
    IF \A c \in blocks : c[3] = 0 THEN <<alo, blo, 0>>
    ELSE CHOOSE c \in blocks : \A d \in blocks : BlockBeats(c, d)

\* find_longest_match: the longest block, earliest in a, then earliest in b
FindLongestMatch(a, b, alo, ahi, blo, bhi) ==
    BestBlock({<<p[1], p[2], RunLen(a, b, p[1], p[2], ahi, bhi)>> :
                  p \in (alo..(ahi - 1)) \X (blo..(bhi - 1))}, alo, blo)

\* the ranges left and right of the block m of the range q that
\* get_matching_blocks puts on its queue
QueueAfter(q, m) ==
    IF m[3] = 0 THEN <<>>
    ELSE (IF q[1] < m[1] /\ q[3] < m[2] THEN <<<<q[1], m[1], q[3], m[2]>>>> ELSE <<>>)
         \o (IF m[1] + m[3] < q[2] /\ m[2] + m[3] < q[4]
             THEN <<<<m[1] + m[3], q[2], m[2] + m[3], q[4]>>>> ELSE <<>>)

\* the while loop of get_matching_blocks over the queue of ranges
\* <<alo, ahi, blo, bhi>>: the set of blocks found
RECURSIVE QueuedBlocks(_, _, _)
BlocksStep(a, b, queue, m) ==
    (IF m[3] = 0 THEN {} ELSE {m})
    \cup QueuedBlocks(a, b, Tail(queue) \o QueueAfter(Head(queue), m))
QueuedBlocks(a, b, queue) ==
    IF queue = <<>> THEN {}
    ELSE BlocksStep(a, b, queue,
            FindLongestMatch(a, b, Head(queue)[1], Head(queue)[2],
                             Head(queue)[3], Head(queue)[4]))

\* matching_blocks.sort()
FirstBlock(blocks) == CHOOSE c \in blocks : \A d \in blocks : c[1] <= d[1]
RECURSIVE SortBlocks(_)
SortFrom(blocks, c) == <<c>> \o SortBlocks(blocks \ {c})
SortBlocks(blocks) == IF blocks = {} THEN <<>> ELSE SortFrom(blocks, FirstBlock(blocks))

\* adjacent blocks are merged
Adjacent(cur, nx) == cur[1] + cur[3] = nx[1] /\ cur[2] + cur[3] = nx[2]
Emit(cur) == IF cur[3] > 0 THEN <<cur>> ELSE <<>>
RECURSIVE Collapse(_, _)
Collapse(blocks, cur) ==
    IF blocks = <<>> THEN Emit(cur)
    ELSE (IF Adjacent(cur, Head(blocks)) THEN <<>> ELSE Emit(cur))
         \o Collapse(Tail(blocks),
                     IF Adjacent(cur, Head(blocks))
                     THEN <<cur[1], cur[2], cur[3] + Head(blocks)[3]>>
                     ELSE Head(blocks))

\* get_matching_blocks: merged blocks and the terminating (la, lb, 0)
GetMatchingBlocks(a, b) ==
    Collapse(SortBlocks(QueuedBlocks(a, b, <<<<0, Len(a), 0, Len(b)>>>>)), <<0, 0, 0>>)
        \o <<<<Len(a), Len(b), 0>>>>

RECURSIVE SumSizes(_)
SumSizes(blocks) == IF blocks = <<>> THEN 0 ELSE Head(blocks)[3] + SumSizes(Tail(blocks))

\* SequenceMatcher.ratio() = 2.0 * matches / length as the fraction <<num, den>>
MatcherRatio(a, b) ==
    IF Len(a) + Len(b) = 0 THEN <<1, 1>>
    ELSE <<2 * SumSizes(GetMatchingBlocks(a, b)), Len(a) + Len(b)>>

\* utils.intr(100 * r): int(round(.)), halves rounded to the even integer
RoundHalfEven(n, d) ==
    IF 2 * (n % d) < d THEN n \div d
    ELSE IF 2 * (n % d) > d THEN (n \div d) + 1
    ELSE IF (n \div d) % 2 = 0 THEN n \div d ELSE (n \div d) + 1
Intr100(r) == RoundHalfEven(100 * r[1], r[2])

(***************************************************************************)
(* fuzzywuzzy.fuzz.ratio and partial_ratio with their decorators:          *)
(* check_for_none (0 when an argument is None), check_for_equivalence      *)
(* (100 when the arguments are equal), check_empty_string (0 when an       *)
(* argument is empty).                                                     *)
(***************************************************************************)
ratio(s1, s2) ==
    IF IsNone(s1) \/ IsNone(s2) THEN 0
    ELSE IF s1 = s2 THEN 100
    ELSE IF Len(s1) = 0 \/ Len(s2) = 0 THEN 0
    ELSE Intr100(MatcherRatio(s1, s2))

\* the score of one matching block: ratio of the shorter string against the
\* window of the longer one that the block aligns it with
LongStart(block) == IF block[2] - block[1] > 0 THEN block[2] - block[1] ELSE 0
BlockRatio(shorter, longer, block) ==
    MatcherRatio(shorter, Slice(longer, LongStart(block), LongStart(block) + Len(shorter)))

\* max(scores) on fractions
Larger(x, y) == IF x[1] * y[2] >= y[1] * x[2] THEN x ELSE y
RECURSIVE MaxScore(_)
MaxScore(scores) ==
    IF Len(scores) = 1 THEN scores[1] ELSE Larger(scores[1], MaxScore(Tail(scores)))

\* the loop of partial_ratio over the blocks: 100 as soon as a score is
\* above .995, else the rounded maximum
PartialOfScores(scores) ==
    IF \E n \in 1..Len(scores) : 1000 * scores[n][1] > 995 * scores[n][2]
    THEN 100
    ELSE Intr100(MaxScore(scores))
PartialOfBlocks(shorter, longer, blocks) ==
    PartialOfScores([n \in 1..Len(blocks) |-> BlockRatio(shorter, longer, blocks[n])])
PartialOrdered(shorter, longer) ==
    PartialOfBlocks(shorter, longer, GetMatchingBlocks(shorter, longer))

partial_ratio(s1, s2) ==
    IF IsNone(s1) \/ IsNone(s2) THEN 0
    ELSE IF s1 = s2 THEN 100
    ELSE IF Len(s1) = 0 \/ Len(s2) = 0 THEN 0
    ELSE PartialOrdered(IF Len(s1) <= Len(s2) THEN s1 ELSE s2,
                        IF Len(s1) <= Len(s2) THEN s2 ELSE s1)

(***************************************************************************)
(* fuzzywuzzy.fuzz: the token methods, with the string processing of       *)
(* fuzzywuzzy.utils.full_process they apply to both arguments.             *)
(***************************************************************************)
\* the characters of the model that the regex \W matches besides whitespace
Punctuation == {DQ, SQ, "!", "{", "}", ":"}
IsWordChar(c) == ~IsSpace(c) /\ c \notin Punctuation

\* StringProcessor.replace_non_letters_non_numbers_with_whitespace
ReplaceNonWord(s) == [i \in 1..Len(s) |-> IF IsWordChar(s[i]) THEN s[i] ELSE SP]

\* str.strip()
Lowest(S) == CHOOSE i \in S : \A j \in S : i <= j
Highest(S) == CHOOSE i \in S : \A j \in S : j <= i
StripTo(s, places) == IF places = {} THEN <<>> ELSE SubSeq(s, Lowest(places), Highest(places))
Strip(s) == StripTo(s, {i \in 1..Len(s) : ~IsSpace(s[i])})

\* utils.full_process: non-word characters to spaces, lower case, strip
full_process(s) == Strip(Lower(ReplaceNonWord(s)))
\* utils.validate_string, for a string
validate_string(s) == Len(s) > 0

\* the word characters of the model in the order of their code points
CodeOrder == <<"1", "A", "B", "a", "b", "e", "h", "k", "n", "o", "x", "z">>
Ord(c) == CHOOSE n \in 1..Len(CodeOrder) : CodeOrder[n] = c
\* t < u, as Python compares two strings
StrLess(t, u) ==
    \E k \in 1..Len(u) :
        /\ k - 1 <= Len(t)
        /\ SubSeq(t, 1, k - 1) = SubSeq(u, 1, k - 1)
        /\ k > Len(t) \/ Ord(t[k]) < Ord(u[k])

\* sorted(tokens) for a list, and for a set
Rank(tokens, i) ==
    1 + Cardinality({j \in 1..Len(tokens) :
                        \/ StrLess(tokens[j], tokens[i])
                        \/ tokens[j] = tokens[i] /\ j < i})
Sorted(tokens) ==
    [n \in 1..Len(tokens) |-> tokens[CHOOSE i \in 1..Len(tokens) : Rank(tokens, i) = n]]
SortedSet(S) ==
    [n \in 1..Cardinality(S) |->
        CHOOSE t \in S : Cardinality({u \in S : StrLess(u, t)}) = n - 1]
SetOf(seq) == {seq[n] : n \in 1..Len(seq)}

RatioFunc(partial, a, b) == IF partial THEN partial_ratio(a, b) ELSE ratio(a, b)

\* fuzz._process_and_sort and fuzz._token_sort
process_and_sort(s) == Strip(JoinSpace(Sorted(Split(full_process(s)))))
token_sort(s1, s2, partial) ==
    IF IsNone(s1) \/ IsNone(s2) THEN 0
    ELSE RatioFunc(partial, process_and_sort(s1), process_and_sort(s2))

\* fuzz._token_set: the pairwise scores of the sorted intersection and of
\* the intersection followed by each difference; 0 when a processed
\* argument is empty
Max2(x, y) == IF x >= y THEN x ELSE y
Max3(x, y, z) == Max2(Max2(x, y), z)
TokenSetPairwise(sect, c12, c21, partial) ==
    Max3(RatioFunc(partial, sect, c12), RatioFunc(partial, sect, c21),
         RatioFunc(partial, c12, c21))
TokenSetJoined(sect, d12, d21, partial) ==
    TokenSetPairwise(Strip(sect), Strip(sect \o <<SP>> \o d12),
                     Strip(sect \o <<SP>> \o d21), partial)
TokenSetOf(tokens1, tokens2, partial) ==
    TokenSetJoined(JoinSpace(SortedSet(tokens1 \cap tokens2)),
                   JoinSpace(SortedSet(tokens1 \ tokens2)),
                   JoinSpace(SortedSet(tokens2 \ tokens1)), partial)
TokenSetProcessed(p1, p2, partial) ==
    IF ~validate_string(p1) \/ ~validate_string(p2) THEN 0
    ELSE TokenSetOf(SetOf(Split(p1)), SetOf(Split(p2)), partial)
token_set(s1, s2, partial) ==
    IF IsNone(s1) \/ IsNone(s2) THEN 0
    ELSE TokenSetProcessed(full_process(s1), full_process(s2), partial)

token_sort_ratio(s1, s2) == token_sort(s1, s2, FALSE)
partial_token_sort_ratio(s1, s2) == token_sort(s1, s2, TRUE)
token_set_ratio(s1, s2) == token_set(s1, s2, FALSE)
partial_token_set_ratio(s1, s2) == token_set(s1, s2, TRUE)

(***************************************************************************)
(* utils.compare_strings.  Similarities are kept as integer percents.      *)
(***************************************************************************)
supported_fuzzy_methods ==
    {"ratio", "partial_ratio", "token_sort_ratio", "token_set_ratio",
     "partial_token_sort_ratio", "partial_token_set_ratio"}

\* the function that the chain of tests on fuzzy_method selects, applied
strings_similarity(fuzzy_method, s1, s2) ==
    IF fuzzy_method = "partial_ratio" THEN partial_ratio(s1, s2)
    ELSE IF fuzzy_method = "token_sort_ratio" THEN token_sort_ratio(s1, s2)
    ELSE IF fuzzy_method = "token_set_ratio" THEN token_set_ratio(s1, s2)
    ELSE IF fuzzy_method = "partial_token_sort_ratio" THEN partial_token_sort_ratio(s1, s2)
    ELSE IF fuzzy_method = "partial_token_set_ratio" THEN partial_token_set_ratio(s1, s2)
    ELSE ratio(s1, s2)

\* compare_strings behind its assert: the similarity * 100
compare_strings(s1, s2, fuzzy_method, case_sensitive) ==
    strings_similarity(fuzzy_method,
                       IF case_sensitive THEN s1 ELSE Lower(s1),
                       IF case_sensitive THEN s2 ELSE Lower(s2))

\* variant of CompareCall: the assert statement is not executed
CompareCall_Unchecked(s1, s2, fuzzy_method, case_sensitive) ==
    [raised |-> "none",
     similarity |-> compare_strings(s1, s2, fuzzy_method, case_sensitive)]

\* a call of compare_strings: the assert on the method name, then the
\* similarity; similarity is -1 when the call returns nothing
CompareCall(s1, s2, fuzzy_method, case_sensitive) ==
    IF fuzzy_method \notin supported_fuzzy_methods
    THEN [raised |-> "AssertionError", similarity |-> -1]
    ELSE [raised |-> "none",
          similarity |-> compare_strings(s1, s2, fuzzy_method, case_sensitive)]

(***************************************************************************)
(* Bot._extract_citations.  A corpus index is 0-based; the Python dict     *)
(* selected_citations is the sequence of its items in insertion order.     *)
(***************************************************************************)
citation_field == "title"
NoneIndex == -1                       \* the dict key None
NoneCitation == [none |-> TRUE]       \* the dict value None

HasKey(d, k) == \E n \in 1..Len(d) : d[n].key = k

\* variant of DictSet: a list append, with no look at the key
DictSet_AlwaysAppend(d, k, v) == Append(d, [key |-> k, value |-> v])

\* variant of DictSet: an existing key is moved to the end
DictSet_MoveToEnd(d, k, v) ==
    Append(SelectSeq(d, LAMBDA item : item.key # k), [key |-> k, value |-> v])

\* d[k] = v: a new key goes last, an existing key keeps its place
DictSet(d, k, v) ==
    IF HasKey(d, k)
    THEN [n \in 1..Len(d) |-> IF d[n].key = k THEN [key |-> k, value |-> v] ELSE d[n]]
    ELSE Append(d, [key |-> k, value |-> v])

DictKeys(d) == [n \in 1..Len(d) |-> d[n].key]
DictValues(d) == [n \in 1..Len(d) |-> d[n].value]

\* lines 129-132: a strictly higher similarity replaces the held record
Updated(best, data, data_index, similarity) ==
    IF similarity > best.max_similarity
    THEN [max_similarity |-> similarity, ref |-> data, ref_index |-> data_index]
    ELSE best

\* the loop of lines 127-132 from data_index on: the running maximum and
\* the record holding it
RECURSIVE BestMatch(_, _, _, _)
BestMatch(name, citations, data_index, best) ==
    IF data_index >= Len(citations) THEN best
    ELSE BestMatch(name, citations, data_index + 1,
            Updated(best, citations[data_index + 1], data_index,
                    compare_strings(name, citations[data_index + 1][citation_field],
                                    "ratio", FALSE)))

\* lines 134-135
Accepted(selected, best, threshold) ==
    IF best.max_similarity >= threshold
    THEN DictSet(selected, best.ref_index, best.ref)
    ELSE selected

\* the loop of lines 123-135 over names_list
RECURSIVE ExplicitPhase(_, _, _, _)
ExplicitPhase(names_list, citations, threshold, selected) ==
    IF names_list = <<>> THEN selected
    ELSE ExplicitPhase(Tail(names_list), citations, threshold,
            Accepted(selected,
                     BestMatch(Head(names_list), citations, 0,
                               [max_similarity |-> 0, ref |-> NoneCitation,
                                ref_index |-> NoneIndex]),
                     threshold))

\* variant of FallbackPhase: the threshold itself does not pass
RECURSIVE FallbackPhase_Strict(_, _, _, _, _)
FallbackPhase_Strict(bot_message, citations, threshold, data_index, selected) ==
    IF data_index >= Len(citations) THEN selected
    ELSE FallbackPhase_Strict(bot_message, citations, threshold, data_index + 1,
            IF ~HasKey(selected, data_index)
               /\ compare_strings(citations[data_index + 1][citation_field], bot_message,
                                  "partial_ratio", FALSE) > threshold
            THEN DictSet(selected, data_index, citations[data_index + 1])
            ELSE selected)

\* the loop of lines 138-148 from data_index on
RECURSIVE FallbackPhase(_, _, _, _, _)
FallbackPhase(bot_message, citations, threshold, data_index, selected) ==
    IF data_index >= Len(citations) THEN selected
    ELSE FallbackPhase(bot_message, citations, threshold, data_index + 1,
            IF ~HasKey(selected, data_index)
               /\ compare_strings(citations[data_index + 1][citation_field], bot_message,
                                  "partial_ratio", FALSE) >= threshold
            THEN DictSet(selected, data_index, citations[data_index + 1])
            ELSE selected)

\* what a call of _extract_citations did.  raised: re.findall was handed
\* None (TypeError).  explicit is selected_citations as it stands at line
\* 137, selected at line 150, and citations the list returned.
Resolution(raised, findall_called, names_list, explicit, selected) ==
    [raised |-> raised, findall_called |-> findall_called, names_list |-> names_list,
     explicit |-> explicit, selected |-> selected, citations |-> DictValues(selected)]

\* variant of WithWholeText: the whole-text loop sits inside "if names_list"
WithWholeText_NamesOnly(bot_message, citations, threshold, names_list, explicit) ==
    Resolution(FALSE, TRUE, names_list, explicit,
               IF names_list = <<>> THEN explicit
               ELSE FallbackPhase(bot_message, citations, threshold, 0, explicit))

\* lines 137-150: the whole-text loop runs whatever names_list holds
WithWholeText(bot_message, citations, threshold, names_list, explicit) ==
    Resolution(FALSE, TRUE, names_list, explicit,
               FallbackPhase(bot_message, citations, threshold, 0, explicit))

\* lines 122-150 for the names_list that re.findall returned
WithNames(bot_message, citations, threshold, names_list) ==
    WithWholeText(bot_message, citations, threshold, names_list,
                  ExplicitPhase(names_list, citations, threshold, <<>>))

\* _extract_citations(bot_message) with the staged corpus and threshold of
\* the bot
extract_citations(bot_message, citations_avail, threshold) ==
    IF citations_avail = <<>> THEN Resolution(FALSE, FALSE, <<>>, <<>>, <<>>)
    ELSE IF IsNone(bot_message) THEN Resolution(TRUE, TRUE, <<>>, <<>>, <<>>)
    ELSE WithNames(bot_message, citations_avail, threshold, FindAll(bot_message))

(***************************************************************************)
(* Inputs: the records the database can hold, the settings, and what the   *)
(* external collaborators (LLM, database file) can answer.                 *)
(***************************************************************************)
R1 == [title |-> <<"a">>, year |-> 1]
R2 == [title |-> <<"A", "b">>, year |-> 2]
Database == {R1, R2}

default_citation_threshold == 75
\* a citation_threshold of settings.yml other than the default
low_citation_threshold == 50

\* the bots of run.py
Bots == {"OpenAI FC", "OpenAI", "PaLM"}
OpenAIBots == {"OpenAI FC", "OpenAI"}

\* settings.yml, section genai_chat: filter flag, no-citation message,
\* general error message
Config(f, n, e, t) ==
    [filter_bot_messages_without_citations |-> f,
     error_message_bot_message_without_citations |-> n,
     error_message_general |-> e,
     citation_threshold |-> t]
Configs ==
    { Config(FALSE, <<"n">>, <<"e">>, default_citation_threshold),
      Config(TRUE, <<"n">>, <<"e">>, default_citation_threshold),
      Config(TRUE, <<"n">>, <<DQ, "e", DQ>>, default_citation_threshold),
      Config(TRUE, <<DQ, "n", DQ>>, <<"e">>, default_citation_threshold),
      Config(TRUE, <<"n">>, <<"e">>, low_citation_threshold) }

UserMessages == {<<SQ, "h", SQ>>}

\* an LLM call raises, or answers with a content that is None or a text
LLMRaises == [raises |-> TRUE, content |-> None]
LLMAnswers(texts) == {[raises |-> FALSE, content |-> t] : t \in texts \cup {None}}

\* what the parameter-extraction prompt is answered with
ParamTexts == {<<"{", NL, "}">>, <<"{", DQ, "x", DQ, ":", SP, "1", "}">>}
\* what the reply prompt is answered with
ReplyTexts == {<<"o", NL, "k">>, <<DQ, "a", DQ>>, <<DQ, "z", DQ>>}

\* response_message.get('function_call') of the function-calling variant
\* (NoFunctionCall: the answer carries no function_call)
NoFunctionCall == [name |-> "None", arguments |-> << >>]
FunctionCalls ==
    {NoFunctionCall}
    \cup {[name |-> "get_music_recommendations", arguments |-> ar] :
            ar \in {<<"{", "}">>, <<"{">>}}
    \cup {[name |-> "other", arguments |-> <<"{", "}">>]}

\* _load_database: the file cannot be read, or holds a list of records
DatabaseLoads ==
    {[ok |-> FALSE, data |-> << >>]}
    \cup {[ok |-> TRUE, data |-> d] : d \in {<<R1, R2>>}}

\* the one key of the document  {"key":1}  without its whitespace, or None
OneKey(body) ==
    IF /\ Len(body) >= 7
       /\ body[1] = "{" /\ body[2] = DQ
       /\ SubSeq(body, Len(body) - 3, Len(body)) = <<DQ, ":", "1", "}">>
       /\ ~HasQuote(SubSeq(body, 3, Len(body) - 4))
    THEN SubSeq(body, 3, Len(body) - 4)
    ELSE None

\* json.loads for the body of a text without its whitespace: the documents
\* recognised are the empty object and the object with one key; keys holds
\* the keys of the object
ParsedBody(body) ==
    IF body = <<"{", "}">> THEN [ok |-> TRUE, keys |-> {}]
    ELSE IF ~IsNone(OneKey(body)) THEN [ok |-> TRUE, keys |-> {OneKey(body)}]
    ELSE [ok |-> FALSE, keys |-> {}]

\* json.loads(s); None is not a text (TypeError)
json_loads(s) ==
    IF IsNone(s) THEN [ok |-> FALSE, keys |-> {}]
    ELSE ParsedBody(SelectSeq(s, LAMBDA c : ~IsSpace(c)))

\* the keyword parameters of Bot.get_music_recommendations
music_parameters ==
    { <<"t", "i", "t", "l", "e">>, <<"g", "e", "n", "r", "e">>,
      <<"a", "u", "t", "h", "o", "r", "s">>, <<"c", "o", "u", "n", "t", "r", "y">>,
      <<"y", "e", "a", "r">> }

\* Bot.get_music_recommendations: a failing load is an empty list
get_music_recommendations(load) == IF load.ok THEN load.data ELSE << >>

\* what became of the lookup of a chat call: invoked (the call of
\* get_music_recommendations was made), done (it returned), failed (it was
\* invoked and the database could not be loaded or the call raised)
NoLookup == [invoked |-> FALSE, done |-> FALSE, failed |-> FALSE, result |-> << >>]
\* get_music_recommendations(**search_params): a keyword that is not a
\* parameter is a TypeError of the call
LookupWith(search_params, load) ==
    IF ~search_params.ok THEN NoLookup
    ELSE IF ~(search_params.keys \subseteq music_parameters)
    THEN [invoked |-> TRUE, done |-> FALSE, failed |-> TRUE, result |-> << >>]
    ELSE [invoked |-> TRUE, done |-> TRUE, failed |-> ~load.ok,
          result |-> get_music_recommendations(load)]

VARIABLES
    settings,               \* the genai_chat settings every bot is built from
    citations_available,    \* Bot._citations_available of each bot
    chat_history,           \* Bot._chat_history of each bot
    openai_messages,        \* BotOpenAI._openai_messages of each OpenAI bot
    call,                   \* locals and outcome of the latest chat call
    ncalls,                 \* chat calls made so far
    chat_calls,             \* chat calls of each bot that returned to their caller
    built,                  \* the bots constructed so far
    provider_env,           \* module state of the openai and vertexai libraries
    compared,               \* a direct call of compare_strings: arguments, outcome
    download,               \* outcome of the last export of the chat sessions
    resolve,                \* a direct call of _extract_citations
    schema                  \* a direct call of FunctionCalling.__json__

vars == <<settings, citations_available, chat_history, openai_messages, call, ncalls, chat_calls, built, provider_env, compared, download, resolve, schema>>

NoCall ==
    [bot |-> "", user_message |-> << >>, failure |-> "none", caught |-> FALSE,
     raised |-> FALSE, lookup_invoked |-> FALSE, lookup_done |-> FALSE,
     lookup_failed |-> FALSE, lookup_result |-> << >>,
     generation_reached |-> FALSE, corpus_used |-> << >>,
     generated |-> << >>, bot_citations |-> << >>, policy_done |-> FALSE,
     policed |-> << >>, ret_message |-> << >>, ret_citations |-> << >>]

\* one entry of _openai_messages: role, content, and the records that the
\* content carries (the "Available options" of the prompt, or the function
\* response)
Entry(role, content, data) == [role |-> role, content |-> content, data |-> data]

\* settings.yml, sections openai and palm, as the constructors read them
openai_settings ==
    [api_type |-> "azure", api_key |-> "key", api_base |-> "base", api_version |-> "version"]
palm_settings == [project_id |-> "project"]

\* the module attributes of the openai library and the state of
\* vertexai.init before any bot is constructed
NoEnvironment ==
    [openai |-> [api_type |-> "open_ai", api_key |-> "None", api_base |-> "default",
                 api_version |-> "None"],
     vertexai |-> [project |-> "None"]]

\* variant of OpenAIModule: the variant writes a value of its own to the module
OpenAIModule_PerVariant(b) == [openai_settings EXCEPT !.api_version = b]

\* BotOpenAI.__init__ lines 239-243, run by both OpenAI variants: the
\* attributes written to the openai module
OpenAIModule(b) ==
    [api_type |-> openai_settings.api_type, api_key |-> openai_settings.api_key,
     api_base |-> openai_settings.api_base, api_version |-> openai_settings.api_version]

\* the library state after the constructor of b ran: BotOpenAI.__init__
\* writes the openai module, BotPaLM.__init__ calls vertexai.init
Environment(env, b) ==
    IF b \in OpenAIBots
    THEN [env EXCEPT !.openai = OpenAIModule(b)]
    ELSE [env EXCEPT !.vertexai = [project |-> palm_settings.project_id]]

\* the library state a bot reads when it calls its provider
EnvironmentRead(env, b) == IF b \in OpenAIBots THEN env.openai ELSE env.vertexai

\* no direct call of compare_strings is under way
NoComparison ==
    [state |-> "idle", s1 |-> << >>, s2 |-> << >>, fuzzy_method |-> "ratio",
     case_sensitive |-> TRUE, outcome |-> [raised |-> "none", similarity |-> -1]]

\* no export of the chat sessions was made
NoDownload == [state |-> "idle", raised |-> "none", json_data |-> None]

(***************************************************************************)
(* FunctionCalling.__json__ called directly: the schema of a function      *)
(* whose parameter list is drawn from a bounded set.  A Python value       *)
(* carries its class; a dict is the sequence of its items.                 *)
(***************************************************************************)
\* the names of the parameters of get_music_recommendations
ParameterNames == {"title", "genre", "country", "year"}

\* descr_or_enum: a description, or the list of the values allowed
Descriptions == {[list |-> FALSE, value |-> <<"Music title">>],
                 [list |-> TRUE, value |-> <<"rock", "jazz">>]}

\* FunctionCallingProperty(name, descr_or_enum, required)
FunctionCallingProperty(name, descr_or_enum, required) ==
    [class |-> "FunctionCallingProperty", name |-> name,
     descr_or_enum |-> descr_or_enum, required |-> required, items |-> << >>]
Properties ==
    {FunctionCallingProperty(n, d, r) : n \in ParameterNames, d \in Descriptions, r \in BOOLEAN}

\* the parameter lists of up to MaxParams properties with distinct names
DistinctNames(ps) == \A i, j \in 1..Len(ps) : ps[i].name = ps[j].name => i = j
ParameterLists ==
    UNION {{ps \in [1..n -> Properties] : DistinctNames(ps)} : n \in 0..MaxParams}

\* a dict as a Python value
PyDict(items) ==
    [class |-> "dict", name |-> "", descr_or_enum |-> [list |-> FALSE, value |-> << >>],
     required |-> FALSE, items |-> items]

\* the entry of one parameter: type and enum, or type and description
PropertyEntry(descr_or_enum) ==
    IF descr_or_enum.list
    THEN [type |-> "string", kind |-> "enum", value |-> descr_or_enum.value]
    ELSE [type |-> "string", kind |-> "description", value |-> descr_or_enum.value]

\* FunctionCallingProperty.__json__: a dict of one item
PropertyJson(p) == PyDict(<<[key |-> p.name, value |-> PropertyEntry(p.descr_or_enum)]>>)

\* x.update(y) for the items of two dicts, from item n of y on
RECURSIVE DictUpdate(_, _, _)
DictUpdate(x, y, n) ==
    IF n > Len(y) THEN x
    ELSE DictUpdate(DictSet(x, y[n].key, y[n].value), y, n + 1)

\* lines 99-105 of merge_dict: the dict an argument stands for
AsDict(a) == IF a.class = "dict" THEN a ELSE PropertyJson(a)

\* merge_dict(a, b)
merge_dict(a, b) == PyDict(DictUpdate(AsDict(a).items, AsDict(b).items, 1))

\* the loop of functools.reduce(merge_dict, sequence) from element n on
RECURSIVE ReduceFrom(_, _, _)
ReduceFrom(acc, sequence, n) ==
    IF n > Len(sequence) THEN acc
    ELSE ReduceFrom(merge_dict(acc, sequence[n]), sequence, n + 1)

\* functools.reduce(merge_dict, sequence), no initial value: a TypeError
\* for an empty sequence, the first element itself for a sequence of one
reduce_merge_dict(sequence) ==
    IF sequence = << >>
    THEN [raised |-> "TypeError", value |-> PyDict(<< >>)]
    ELSE [raised |-> "none", value |-> ReduceFrom(sequence[1], sequence, 2)]

\* [x.name for x in self.parameters if x.required]
RequiredNames(parameters) ==
    [n \in 1..Len(SelectSeq(parameters, LAMBDA x : x.required)) |->
        SelectSeq(parameters, LAMBDA x : x.required)[n].name]

\* the dict literal of FunctionCalling.__json__ for the reduced properties
JsonOutput(parameters, reduced) ==
    IF reduced.raised # "none"
    THEN [raised |-> reduced.raised, properties |-> PyDict(<< >>), required |-> << >>]
    ELSE [raised |-> "none", properties |-> reduced.value,
          required |-> RequiredNames(parameters)]

\* FunctionCalling.__json__ of a function with these parameters
FunctionCallingJson(parameters) == JsonOutput(parameters, reduce_merge_dict(parameters))

\* no direct call of FunctionCalling.__json__ is under way
NoSchema ==
    [state |-> "idle", parameters |-> << >>,
     json_output |-> [raised |-> "none", properties |-> PyDict(<< >>), required |-> << >>]]

\* main of run.py before it builds its bots
Unbuilt ==
    /\ citations_available = [b \in Bots |-> << >>]
    /\ chat_history = [b \in Bots |-> << >>]
    /\ openai_messages = [b \in OpenAIBots |-> << >>]
    /\ call = NoCall
    /\ ncalls = 0
    /\ chat_calls = [b \in Bots |-> 0]
    /\ built = {}
    /\ provider_env = NoEnvironment
    /\ compared = NoComparison
    /\ download = NoDownload
    /\ schema = NoSchema

Init ==
    /\ settings \in Configs
    /\ Unbuilt
    /\ resolve = [state |-> "idle", bot_message |-> << >>,
                  result |-> extract_citations(<< >>, << >>, 0)]

\* Bot.__init__, BotOpenAI.__init__, BotOpenAIFC.__init__, BotPaLM.__init__:
\* the bot b of run.py is constructed
Construct(b) ==
    /\ b \notin built
    /\ built' = built \cup {b}
    /\ citations_available' = [citations_available EXCEPT ![b] = << >>]
    /\ chat_history' = [chat_history EXCEPT ![b] = << >>]
    /\ openai_messages' =
          IF b \in OpenAIBots
          THEN [openai_messages EXCEPT ![b] = <<Entry("system", << >>, << >>)>>]
          ELSE openai_messages
    /\ provider_env' = Environment(provider_env, b)
    /\ UNCHANGED <<settings, call, ncalls, chat_calls, compared, download, resolve, schema>>

(***************************************************************************)
(* The chat operation.  The try block of each variant yields the locals    *)
(* it leaves behind; the rest of the method is common to the variants.     *)
(***************************************************************************)
\* what the try block leaves: the except branch was taken (caught) because
\* of failure, or the block ran to its end
TryResult(failure, bot_message, bot_citations, avail, msgs, lookup, generation_reached) ==
    [failure |-> failure, caught |-> failure # "none",
     bot_message |-> bot_message, bot_citations |-> bot_citations,
     avail |-> avail, msgs |-> msgs,
     lookup |-> lookup, generation_reached |-> generation_reached]

\* the except branch: bot_message = self._error_message_general
TryFailed(failure, avail, msgs, lookup, generation_reached) ==
    TryResult(failure, settings.error_message_general, << >>, avail, msgs, lookup, generation_reached)

\* variant of Resolved: a citation carries the title of its record only
Resolved_TitleOnly(bot_message, ex, avail, msgs, lookup) ==
    IF ex.raised
    THEN TryFailed("resolution", avail, msgs, lookup, TRUE)
    ELSE TryResult("none", bot_message,
                   [n \in 1..Len(ex.citations) |-> [ex.citations[n] EXCEPT !.year = 0]],
                   avail, msgs, lookup, TRUE)

\* the end of the try block for the resolution ex of bot_message
Resolved(bot_message, ex, avail, msgs, lookup) ==
    IF ex.raised
    THEN TryFailed("resolution", avail, msgs, lookup, TRUE)
    ELSE TryResult("none", bot_message, ex.citations, avail, msgs, lookup, TRUE)

\* the reply call and the resolution of its content against the staged
\* corpus avail; guarded: _extract_citations is called under
\* "if self._citations_available" only
Generate(reply_llm, guarded, avail, msgs, lookup) ==
    IF reply_llm.raises
    THEN TryFailed("reply_llm", avail, msgs, lookup, TRUE)
    ELSE IF guarded /\ avail = << >>
    THEN TryResult("none", reply_llm.content, << >>, avail, msgs, lookup, TRUE)
    ELSE Resolved(reply_llm.content,
                  extract_citations(reply_llm.content, avail, settings.citation_threshold),
                  avail, msgs, lookup)

\* variant of Staged: a lookup that completes adds its result behind the
\* records staged before
Staged_Accumulate(lookup, old) == IF lookup.done THEN old \o lookup.result ELSE old

\* the inner try: a lookup that completes stages its result, one that does
\* not leaves _citations_available as it was
Staged(lookup, old) ==
    IF lookup.done
    THEN (IF lookup.result # << >> THEN lookup.result ELSE << >>)
    ELSE old

\* BotOpenAI.chat lines 323-357 and BotPaLM.chat lines 123-157
Prompted(b, user_message, reply_llm, with_messages, lookup) ==
    Generate(reply_llm, TRUE,
             Staged(lookup, citations_available[b]),
             IF with_messages
             THEN Append(openai_messages[b],
                         Entry("user", user_message, Staged(lookup, citations_available[b])))
             ELSE << >>,
             lookup)

\* BotOpenAI.chat lines 316-357 (with_messages) and BotPaLM.chat lines
\* 115-157 (the chat session is the provider's, nothing is appended)
TryPrompted(b, user_message, params_llm, load, reply_llm, with_messages) ==
    IF params_llm.raises
    THEN TryFailed("params_llm", citations_available[b],
                   IF with_messages THEN openai_messages[b] ELSE << >>,
                   NoLookup, FALSE)
    ELSE IF IsNone(params_llm.content)
    THEN TryFailed("params_content", citations_available[b],
                   IF with_messages THEN openai_messages[b] ELSE << >>,
                   NoLookup, FALSE)
    ELSE Prompted(b, user_message, reply_llm, with_messages,
                  LookupWith(json_loads(Normalise(params_llm.content)), load))

\* BotOpenAIFC.chat lines 474-486: the function was called
FunctionCalled(reply_llm, msgs0, lookup) ==
    Generate(reply_llm, FALSE, lookup.result,
             Append(msgs0, Entry("function", << >>, lookup.result)),
             lookup)

\* BotOpenAIFC.chat lines 457-496 with the user entry appended (msgs0);
\* function_kwargs holds the parameters of the function and no other key
FunctionCallingBlock(fc_llm, load, reply_llm, old, msgs0) ==
    IF fc_llm.raises
    THEN TryFailed("params_llm", old, msgs0, NoLookup, FALSE)
    ELSE IF fc_llm.content = NoFunctionCall
    THEN Generate(reply_llm, FALSE, old, msgs0, NoLookup)
    ELSE IF ~json_loads(fc_llm.content.arguments).ok
    THEN TryFailed("bad_arguments", old, msgs0, NoLookup, FALSE)
    ELSE IF fc_llm.content.name # "get_music_recommendations"
    THEN TryFailed("unknown_function", old, msgs0, NoLookup, FALSE)
    ELSE FunctionCalled(reply_llm, msgs0,
                        LookupWith([ok |-> TRUE, keys |-> {}], load))

\* BotOpenAIFC.chat lines 453-496; fc_llm is the first LLM answer, whose
\* content field holds response_message.get('function_call')
TryFunctionCalling(b, user_message, fc_llm, load, reply_llm) ==
    FunctionCallingBlock(fc_llm, load, reply_llm, citations_available[b],
                    Append(openai_messages[b], Entry("user", user_message, << >>)))

\* variant of GroundingPolicy: the reply is not searched for a quote
GroundingPolicy_IgnoresQuote(bot_message, bot_citations) ==
    IF settings.filter_bot_messages_without_citations /\ bot_citations = << >>
    THEN settings.error_message_bot_message_without_citations
    ELSE bot_message

\* variant of GroundingPolicy: the general error message is handed on as it is
GroundingPolicy_SparesError(bot_message, bot_citations) ==
    IF settings.filter_bot_messages_without_citations
       /\ HasQuote(bot_message) /\ bot_citations = << >>
       /\ bot_message # settings.error_message_general
    THEN settings.error_message_bot_message_without_citations
    ELSE bot_message

\* "Handling with empty citations": the text the policy hands on
GroundingPolicy(bot_message, bot_citations) ==
    IF settings.filter_bot_messages_without_citations
       /\ HasQuote(bot_message) /\ bot_citations = << >>
    THEN settings.error_message_bot_message_without_citations
    ELSE bot_message

\* the policy test raises TypeError on  '"' in None  unless the filter flag
\* short-circuits it
PolicyRaises(bot_message) ==
    settings.filter_bot_messages_without_citations /\ IsNone(bot_message)

\* variant of AddTurns: the log is started anew
AddTurns_Restart(history, user_message, assistant_message, assistant_citations) ==
    <<[author |-> "user", message |-> user_message, citations |-> << >>],
      [author |-> "assistant", message |-> assistant_message,
       citations |-> assistant_citations]>>

\* variant of UserTurn: the turn is recorded under the assistant's name
UserTurn_AsAssistant(user_message) ==
    [author |-> "assistant", message |-> user_message, citations |-> << >>]

UserTurn(user_message) ==
    [author |-> "user", message |-> user_message, citations |-> << >>]

\* variant of AssistantTurn: the turn is recorded without its citations
AssistantTurn_Uncited(assistant_message, assistant_citations) ==
    [author |-> "assistant", message |-> assistant_message, citations |-> << >>]
\* _add_assistant_message: the dict appended
AssistantTurn(assistant_message, assistant_citations) ==
    [author |-> "assistant", message |-> assistant_message,
     citations |-> assistant_citations]

\* _add_user_message followed by _add_assistant_message
AddTurns(history, user_message, assistant_message, assistant_citations) ==
    Append(Append(history, UserTurn(user_message)),
           AssistantTurn(assistant_message, assistant_citations))

\* the text the policy leaves in bot_message (None: the test raised)
Policed(t) ==
    IF PolicyRaises(t.bot_message) THEN None
    ELSE GroundingPolicy(t.bot_message, t.bot_citations)

\* from the append to _openai_messages to the return statement;
\* " ".join(bot_message.replace(...)) raises AttributeError on None
Conclude(b, user_message, t, with_messages, policy_raises, policed, ret_message) ==
    /\ citations_available' = [citations_available EXCEPT ![b] = t.avail]
    /\ openai_messages' =
          IF with_messages
          THEN [openai_messages EXCEPT ![b] =
                  IF policy_raises THEN t.msgs
                  ELSE Append(t.msgs, Entry("assistant", policed, << >>))]
          ELSE openai_messages
    /\ chat_history' =
          IF IsNone(ret_message) THEN chat_history
          ELSE [chat_history EXCEPT ![b] =
                  AddTurns(@, user_message, ret_message, t.bot_citations)]
    /\ call' = [bot |-> b, user_message |-> user_message,
                failure |-> t.failure, caught |-> t.caught,
                raised |-> IsNone(ret_message),
                lookup_invoked |-> t.lookup.invoked, lookup_done |-> t.lookup.done,
                lookup_failed |-> t.lookup.failed, lookup_result |-> t.lookup.result,
                generation_reached |-> t.generation_reached,
                corpus_used |-> IF t.generation_reached THEN t.avail ELSE << >>,
                generated |-> t.bot_message, bot_citations |-> t.bot_citations,
                policy_done |-> ~policy_raises, policed |-> policed,
                ret_message |-> ret_message,
                ret_citations |-> IF IsNone(ret_message) THEN << >> ELSE t.bot_citations]
    /\ ncalls' = ncalls + 1
    /\ chat_calls' =
          IF IsNone(ret_message) THEN chat_calls
          ELSE [chat_calls EXCEPT ![b] = @ + 1]
    /\ UNCHANGED <<settings, built, provider_env, compared, download, resolve, schema>>

\* from the policy to the return statement, for the try result t
Finish(b, user_message, t, with_messages) ==
    Conclude(b, user_message, t, with_messages, PolicyRaises(t.bot_message), Policed(t),
             IF IsNone(Policed(t)) THEN None ELSE Normalise(Policed(t)))

\* BotOpenAI.chat
ChatOpenAI ==
    /\ built = Bots
    /\ ncalls < MaxCalls
    /\ \E um \in UserMessages, params_llm \in {LLMRaises} \cup LLMAnswers(ParamTexts),
          load \in DatabaseLoads, reply_llm \in {LLMRaises} \cup LLMAnswers(ReplyTexts) :
          LET user_message == ReplaceChar(um, SQ, DQ)
          IN  Finish("OpenAI", user_message,
                     TryPrompted("OpenAI", user_message, params_llm, load, reply_llm, TRUE),
                     TRUE)

\* BotOpenAIFC.chat
ChatOpenAIFC ==
    /\ built = Bots
    /\ ncalls < MaxCalls
    /\ \E um \in UserMessages,
          fc_llm \in {LLMRaises} \cup {[raises |-> FALSE, content |-> fc] : fc \in FunctionCalls},
          load \in DatabaseLoads, reply_llm \in {LLMRaises} \cup LLMAnswers(ReplyTexts) :
          LET user_message == ReplaceChar(um, SQ, DQ)
          IN  Finish("OpenAI FC", user_message,
                     TryFunctionCalling("OpenAI FC", user_message, fc_llm, load, reply_llm),
                     TRUE)

\* BotPaLM.chat
ChatPaLM ==
    /\ built = Bots
    /\ ncalls < MaxCalls
    /\ \E um \in UserMessages, params_llm \in {LLMRaises} \cup LLMAnswers(ParamTexts),
          load \in DatabaseLoads, reply_llm \in {LLMRaises} \cup LLMAnswers(ReplyTexts) :
          LET user_message == ReplaceChar(um, SQ, DQ)
          IN  Finish("PaLM", user_message,
                     TryPrompted("PaLM", user_message, params_llm, load, reply_llm, FALSE),
                     FALSE)

(***************************************************************************)
(* streamlit_app.prepare_chat_sessions_to_download: the sessions of        *)
(* st.session_state['chats'], one per constructed bot, are collected and   *)
(* serialized.  A JSON text is the sequence of its tokens; an object is    *)
(* one token, the record of its members.                                   *)
(***************************************************************************)
\* the names that an instance of Bot or of one of its variants answers to
BotAttributes ==
    {"genai_name", "chat", "chat_history", "get_music_recommendations",
     "_load_database", "_extract_citations", "_add_user_message",
     "_add_assistant_message", "_get_llm_response"}

\* st.session_state['chats'] for the bots constructed
SessionOrder == <<"OpenAI FC", "OpenAI", "PaLM">>
Sessions(bots) == SelectSeq(SessionOrder, LAMBDA b : b \in bots)

\* chat['bot'].get_chat_history()
GetChatHistory(history) ==
    IF "get_chat_history" \in BotAttributes
    THEN [raised |-> "none", messages |-> history]
    ELSE [raised |-> "AttributeError", messages |-> << >>]

\* json.dumps of one turn: the dict of a user turn has no "citations"
DumpTurn(t) ==
    IF t.author = "user"
    THEN [author |-> t.author, message |-> t.message]
    ELSE [author |-> t.author, message |-> t.message, citations |-> t.citations]
DumpSession(b, messages) ==
    [id |-> b, genai |-> b, active |-> TRUE,
     messages |-> [n \in 1..Len(messages) |-> DumpTurn(messages[n])]]
json_dumps(sessions, got) ==
    <<"[">> \o [n \in 1..Len(sessions) |-> DumpSession(sessions[n], got[n].messages)]
           \o <<"]">>

\* the loop over the sessions, then json.dumps(data)
Prepared(sessions, got) ==
    IF \E n \in 1..Len(got) : got[n].raised # "none"
    THEN [state |-> "done", raised |-> "AttributeError", json_data |-> None]
    ELSE [state |-> "done", raised |-> "none", json_data |-> json_dumps(sessions, got)]
prepare_chat_sessions_to_download(sessions, histories) ==
    Prepared(sessions, [n \in 1..Len(sessions) |-> GetChatHistory(histories[sessions[n]])])

\* the download of the chat sessions is prepared
PrepareDownload ==
    /\ download' = prepare_chat_sessions_to_download(Sessions(built), chat_history)
    /\ UNCHANGED <<settings, citations_available, chat_history, openai_messages,
                   call, ncalls, chat_calls, built, provider_env, compared, resolve, schema>>

Build == \E b \in Bots : Construct(b)

\* run.py: the bots are built and called
Next == Build \/ ChatOpenAI \/ ChatOpenAIFC \/ ChatPaLM

\* streamlit_app.py: the bots of the sessions are built and called, and the
\* sessions are exported
NextExport == Build \/ ChatOpenAI \/ ChatOpenAIFC \/ ChatPaLM \/ PrepareDownload

Spec == Init /\ [][Next]_vars

SpecExport == Init /\ [][NextExport]_vars

(***************************************************************************)
(* _extract_citations called directly: the reply text, the staged corpus   *)
(* and the threshold are drawn from bounded sets.                          *)
(***************************************************************************)
\* a reply text is a concatenation of parts: a character, or a quoted word
Parts == {<<"B">>, <<DQ>>, <<DQ, "a", DQ>>, <<DQ, "B", DQ>>}
RECURSIVE Concat(_)
Concat(parts) == IF parts = << >> THEN << >> ELSE Head(parts) \o Concat(Tail(parts))
Texts == UNION {{Concat(ps) : ps \in [1..n -> Parts]} : n \in 0..MaxParts}
Corpora == UNION {[1..n -> Database] : n \in 0..MaxCorpus}
Thresholds == {-50, 0, 50, 100, 150}

InitResolve ==
    /\ \E t \in Thresholds :
          settings = Config(TRUE, <<"n">>, <<"e">>, t)
    /\ \E corpus \in Corpora :
          citations_available = [b \in Bots |-> IF b = "OpenAI" THEN corpus ELSE << >>]
    /\ chat_history = [b \in Bots |-> << >>]
    /\ openai_messages = [b \in OpenAIBots |-> <<Entry("system", << >>, << >>)>>]
    /\ call = NoCall
    /\ ncalls = 0
    /\ chat_calls = [b \in Bots |-> 0]
    /\ built = {"OpenAI"}
    /\ provider_env = Environment(NoEnvironment, "OpenAI")
    /\ compared = NoComparison
    /\ download = NoDownload
    /\ schema = NoSchema
    /\ \E text \in Texts :
          resolve = [state |-> "ready", bot_message |-> text,
                     result |-> extract_citations(<< >>, << >>, 0)]

\* bot._extract_citations(bot_message=resolve.bot_message)
ExtractCitations ==
    /\ resolve.state = "ready"
    /\ resolve' = [resolve EXCEPT
                     !.state = "done",
                     !.result = extract_citations(resolve.bot_message,
                                                  citations_available["OpenAI"],
                                                  settings.citation_threshold)]
    /\ UNCHANGED <<settings, citations_available, chat_history, openai_messages,
                   call, ncalls, chat_calls, built, provider_env, compared, download, schema>>

NextResolve == ExtractCitations

SpecResolve == InitResolve /\ [][NextResolve]_vars

(***************************************************************************)
(* _extract_citations called on replies that quote a title: the short      *)
(* titles of the database, and a title of a hundred letters next to one    *)
(* that differs from it by a single letter.                                *)
(***************************************************************************)
\* the i-th of a run of distinct letters that have no upper or lower case
Glyph(i) == ToString(i)
LongTitle == [i \in 1..100 |-> Glyph(i)]
\* LongTitle with one more letter in its middle
NearTitle == SubSeq(LongTitle, 1, 50) \o <<Glyph(0)>> \o SubSeq(LongTitle, 51, 100)
R4 == [title |-> NearTitle, year |-> 4]
R5 == [title |-> LongTitle, year |-> 5]

Quoted(t) == <<DQ>> \o t \o <<DQ>>
VerbatimTexts ==
    {Quoted(r.title) : r \in Database \cup {R5}}
    \cup {Quoted(<<"A">>), Quoted(<<"a", "B">>), <<"B", SP>> \o Quoted(<<"B">>),
          Quoted(<<"a">>) \o Quoted(<<"b">>)}
VerbatimCorpora == Corpora \cup {<<R4, R5>>}
VerbatimThresholds == {1, 75, 100}

InitVerbatim ==
    /\ \E t \in VerbatimThresholds :
          settings = Config(TRUE, <<"n">>, <<"e">>, t)
    /\ \E corpus \in VerbatimCorpora :
          citations_available = [b \in Bots |-> IF b = "OpenAI" THEN corpus ELSE << >>]
    /\ chat_history = [b \in Bots |-> << >>]
    /\ openai_messages = [b \in OpenAIBots |-> <<Entry("system", << >>, << >>)>>]
    /\ call = NoCall
    /\ ncalls = 0
    /\ chat_calls = [b \in Bots |-> 0]
    /\ built = {"OpenAI"}
    /\ provider_env = Environment(NoEnvironment, "OpenAI")
    /\ compared = NoComparison
    /\ download = NoDownload
    /\ schema = NoSchema
    /\ \E text \in VerbatimTexts :
          resolve = [state |-> "ready", bot_message |-> text,
                     result |-> extract_citations(<< >>, << >>, 0)]

SpecVerbatim == InitVerbatim /\ [][NextResolve]_vars

(***************************************************************************)
(* compare_strings called directly: two strings of up to MaxLen characters *)
(* (a letter in either case, a space, a punctuation mark), a method name   *)
(* and the case flag.                                                      *)
(***************************************************************************)
CompareAlphabet == {"a", "B", SP, "!"}
CompareStrings == UNION {[1..n -> CompareAlphabet] : n \in 0..MaxLen}
\* the second argument: the first one again, or one of these
OtherStrings == {<< >>, <<"b", SP, "a">>, <<"A", "!">>}
MethodNames == supported_fuzzy_methods \cup {"jaro", "Ratio"}

InitCompare ==
    /\ settings = Config(TRUE, <<"n">>, <<"e">>, default_citation_threshold)
    /\ citations_available = [b \in Bots |-> << >>]
    /\ chat_history = [b \in Bots |-> << >>]
    /\ openai_messages = [b \in OpenAIBots |-> << >>]
    /\ call = NoCall
    /\ ncalls = 0
    /\ chat_calls = [b \in Bots |-> 0]
    /\ built = {}
    /\ provider_env = NoEnvironment
    /\ download = NoDownload
    /\ schema = NoSchema
    /\ resolve = [state |-> "idle", bot_message |-> << >>,
                  result |-> extract_citations(<< >>, << >>, 0)]
    /\ \E s1 \in CompareStrings, fuzzy_method \in MethodNames, case_sensitive \in BOOLEAN :
          \E s2 \in {s1} \cup OtherStrings :
              compared = [NoComparison EXCEPT !.state = "ready", !.s1 = s1, !.s2 = s2,
                                              !.fuzzy_method = fuzzy_method,
                                              !.case_sensitive = case_sensitive]

\* compare_strings(s1, s2, fuzzy_method, case_sensitive)
Compare ==
    /\ compared.state = "ready"
    /\ compared' = [compared EXCEPT
                      !.state = "done",
                      !.outcome = CompareCall(compared.s1, compared.s2,
                                              compared.fuzzy_method,
                                              compared.case_sensitive)]
    /\ UNCHANGED <<settings, citations_available, chat_history, openai_messages,
                   call, ncalls, chat_calls, built, provider_env, download, resolve, schema>>

NextCompare == Compare

SpecCompare == InitCompare /\ [][NextCompare]_vars

(***************************************************************************)
(* FunctionCalling.__json__ called directly.                               *)
(***************************************************************************)
InitSchema ==
    /\ settings = Config(TRUE, <<"n">>, <<"e">>, default_citation_threshold)
    /\ citations_available = [b \in Bots |-> << >>]
    /\ chat_history = [b \in Bots |-> << >>]
    /\ openai_messages = [b \in OpenAIBots |-> << >>]
    /\ call = NoCall
    /\ ncalls = 0
    /\ chat_calls = [b \in Bots |-> 0]
    /\ built = {}
    /\ provider_env = NoEnvironment
    /\ compared = NoComparison
    /\ download = NoDownload
    /\ resolve = [state |-> "idle", bot_message |-> << >>,
                  result |-> extract_citations(<< >>, << >>, 0)]
    /\ \E parameters \in ParameterLists :
          schema = [NoSchema EXCEPT !.state = "ready", !.parameters = parameters]

\* FunctionCalling(name, description, schema.parameters).__json__()
BuildSchema ==
    /\ schema.state = "ready"
    /\ schema' = [schema EXCEPT !.state = "done",
                                !.json_output = FunctionCallingJson(schema.parameters)]
    /\ UNCHANGED <<settings, citations_available, chat_history, openai_messages, call,
                   ncalls, chat_calls, built, provider_env, compared, download, resolve>>

NextSchema == BuildSchema

SpecSchema == InitSchema /\ [][NextSchema]_vars

(***************************************************************************)
(* Properties of _extract_citations (checked under SpecResolve).           *)
(***************************************************************************)
Corpus == citations_available["OpenAI"]
Indices == 0..(Len(Corpus) - 1)
Threshold == settings.citation_threshold
Done == resolve.state = "done"
Res == resolve.result
Keys == DictKeys(Res.selected)
ExplicitKeys == DictKeys(Res.explicit)
RangeOf(seq) == {seq[n] : n \in 1..Len(seq)}

\* similarity of a reference to the record at index i, and of the record at
\* index i to the whole reply
Sim(name, i) == compare_strings(name, Corpus[i + 1][citation_field], "ratio", FALSE)
Partial(i) == compare_strings(Corpus[i + 1][citation_field], resolve.bot_message, "partial_ratio", FALSE)
Sims(name) == [i \in Indices |-> Sim(name, i)]
MaxOf(f) == CHOOSE v \in {f[i] : i \in DOMAIN f} : \A i \in DOMAIN f : f[i] <= v
LowestAt(f, v) == CHOOSE i \in DOMAIN f : f[i] = v /\ \A j \in DOMAIN f : f[j] = v => i <= j
LowestBestOf(f) == LowestAt(f, MaxOf(f))
\* what the scan of the corpus holds at its end for a reference: the lowest
\* index of the highest similarity, or None when no similarity exceeds 0
HeldOf(f) == IF MaxOf(f) > 0 THEN LowestBestOf(f) ELSE NoneIndex
SelectsOf(f, k) == MaxOf(f) >= Threshold /\ HeldOf(f) = k
MaxSim(name) == MaxOf(Sims(name))
LowestBest(name) == LowestBestOf(Sims(name))
\* the references that pass the threshold and hold key k, by position
Selecting(k) == {n \in 1..Len(Res.names_list) : SelectsOf(Sims(Res.names_list[n]), k)}
FirstOf(S) == CHOOSE n \in S : \A m \in S : n <= m
FirstPos(k) == FirstOf(Selecting(k))

\* C4: every corpus index contributes at most one citation to the list
\* returned by _extract_citations, also when several distinct references
\* best-match it and when an explicitly matched record passes the
\* whole-text test too.
C4_Dedup ==
    Done =>
        /\ Len(Res.citations) = Len(Keys)
        /\ \A i \in Indices : Cardinality({n \in 1..Len(Keys) : Keys[n] = i}) <= 1
        /\ \A n \in 1..Len(Keys) : Keys[n] \in Indices => Res.citations[n] = Corpus[Keys[n] + 1]

\* two distinct references select the same index, which also passes the
\* whole-text test, and the list holds that record once
C4_Witness ==
    /\ Done
    /\ Threshold > 0 /\ Threshold <= 100
    /\ \E i \in Indices :
          /\ \E m, n \in Selecting(i) : Res.names_list[m] # Res.names_list[n]
          /\ Partial(i) >= Threshold
          /\ Cardinality({n \in 1..Len(Keys) : Keys[n] = i}) = 1

\* C5: the returned list holds the explicit-phase acceptances first, in the
\* order of the first reference that selected each of them (a later
\* reference selecting the same index moves nothing), and then the
\* whole-text acceptances in ascending corpus index.
C5_Ordering ==
    (Done /\ Corpus # << >>) =>
        LET e == Len(ExplicitKeys)
        IN  /\ e <= Len(Keys)
            /\ SubSeq(Keys, 1, e) = ExplicitKeys
            /\ \A n \in 1..e : Selecting(Keys[n]) # {}
            /\ \A m, n \in 1..e : m < n => FirstPos(Keys[m]) < FirstPos(Keys[n])
            /\ \A n \in (e + 1)..Len(Keys) : Selecting(Keys[n]) = {}
            /\ \A m, n \in (e + 1)..Len(Keys) : m < n => Keys[m] < Keys[n]

\* an index accepted first is selected again after another index was
\* accepted, and the order of first selection is kept
C5_Witness ==
    /\ Done
    /\ Threshold > 0 /\ Threshold <= 100
    /\ Len(ExplicitKeys) >= 2
    /\ \E n \in Selecting(Keys[1]) : n > FirstPos(Keys[2])
    /\ Keys[1] > Keys[2]

\* C7: with a non-empty corpus, an index not accepted in the explicit phase
\* is in the result exactly when the partial_ratio of its field value and
\* the whole reply reaches the threshold.
C7_FallbackPhase ==
    (Done /\ Corpus # << >>) =>
        \A i \in Indices :
            i \notin RangeOf(ExplicitKeys) =>
                (i \in RangeOf(Keys) <=> Partial(i) >= Threshold)

\* references were extracted, one index is accepted by the whole-text test
\* at the boundary value and another index is rejected by it
C7_Witness ==
    /\ Done
    /\ Res.names_list # << >>
    /\ \E i, j \in Indices :
          /\ i \notin RangeOf(ExplicitKeys) /\ i \in RangeOf(Keys)
          /\ Partial(i) = Threshold
          /\ j \notin RangeOf(Keys)

\* C8: with an empty corpus the result is empty and no reference extraction
\* runs; with a non-empty corpus the extraction always runs, and when it
\* finds nothing the whole-text phase still decides the result.
C8_EmptyCorpus ==
    Done =>
        /\ Corpus = << >> => (Res.citations = << >> /\ ~Res.findall_called)
        /\ Corpus # << >> =>
              /\ Res.findall_called
              /\ Res.names_list = FindAll(resolve.bot_message)
              /\ Res.names_list = << >> =>
                    RangeOf(Keys) = {i \in Indices : Partial(i) >= Threshold}

\* nothing is quoted in the reply and the whole-text phase cites a record
C8_Witness ==
    /\ Done
    /\ Corpus # << >>
    /\ Res.findall_called
    /\ Res.names_list = << >>
    /\ Res.citations # << >>

\* C6 (as claimed): per reference, the record of highest ratio similarity,
\* lowest index on exact ties, is the one selected, and it is accepted
\* exactly when that similarity reaches the threshold; nothing else is
\* accepted in the explicit phase.
C6_ExplicitPhase ==
    (Done /\ Corpus # << >>) =>
        RangeOf(ExplicitKeys) =
            {LowestBest(Res.names_list[n]) :
                n \in {m \in 1..Len(Res.names_list) :
                          MaxSim(Res.names_list[m]) >= Threshold}}

\* C9 (as claimed): with a non-empty corpus a threshold above 1 returns the
\* empty list, and a threshold of 0 or less returns every corpus record
\* exactly once and nothing else.
C9_ExtremeThresholds ==
    (Done /\ Corpus # << >>) =>
        /\ Threshold > 100 => Res.citations = << >>
        /\ Threshold <= 0 =>
              /\ Len(Res.citations) = Len(Corpus)
              /\ RangeOf(Keys) = Indices
              /\ \A n \in 1..Len(Keys) : Res.citations[n] = Corpus[Keys[n] + 1]

(***************************************************************************)
(* Properties of the chat operation (checked under Spec).                  *)
(***************************************************************************)
Called == ncalls > 0
History == chat_history[call.bot]
LastOf(seq) == seq[Len(seq)]
TotalTurns == Len(chat_history["OpenAI FC"]) + Len(chat_history["OpenAI"])
                + Len(chat_history["PaLM"])

\* C1: in every variant the policy hands on the no-citation message when
\* the filter flag is set, the reply holds a double quote and no citation
\* was resolved, and hands on the reply itself, unchanged, in every other
\* case; the OpenAI variants hand that text to the provider message list.
C1_GroundingPolicy ==
    (Called /\ call.policy_done) =>
        /\ IF /\ settings.filter_bot_messages_without_citations
              /\ ~IsNone(call.generated) /\ HasQuote(call.generated)
              /\ call.bot_citations = << >>
           THEN call.policed = settings.error_message_bot_message_without_citations
           ELSE call.policed = call.generated
        /\ call.bot \in OpenAIBots =>
              LastOf(openai_messages[call.bot]) = Entry("assistant", call.policed, << >>)

\* a quoted reply without citation was replaced by the no-citation message
C1_Witness ==
    /\ Called /\ call.policy_done /\ ~call.caught
    /\ settings.filter_bot_messages_without_citations
    /\ HasQuote(call.generated) /\ call.bot_citations = << >>
    /\ call.policed = settings.error_message_bot_message_without_citations
    /\ call.policed # call.generated

\* C2 (as claimed): when a step of a chat call fails, the assistant turn
\* recorded and returned carries the general error message and no
\* citation, and no exception reaches the caller.
C2_FailurePath ==
    (Called /\ (call.caught \/ call.raised)) =>
        /\ ~call.raised
        /\ call.ret_message = settings.error_message_general
        /\ call.ret_citations = << >>
        /\ Len(History) >= 2
        /\ LastOf(History) = AssistantTurn(settings.error_message_general, << >>)

\* C3 (as claimed): every chat call returns normally and has appended one
\* user turn followed by one assistant turn.
C3_OneAssistantTurn ==
    Called =>
        /\ ~call.raised
        /\ TotalTurns = 2 * ncalls
        /\ Len(History) >= 2
        /\ History[Len(History) - 1] = UserTurn(call.user_message)
        /\ LastOf(History).author = "assistant"

\* C10 (as claimed): the corpus a reply is generated and resolved against
\* is the result of the lookup made in the same call, and is empty when the
\* call made no lookup.
C10_FreshCorpus ==
    (Called /\ call.generation_reached) =>
        call.corpus_used = (IF call.lookup_done THEN call.lookup_result ELSE << >>)

\* C11 (as claimed): a lookup whose database load fails returns the empty
\* list, and after a chat call whose lookup was invoked and failed the
\* staged corpus of the bot is empty.
C11_LookupFailure ==
    (Called /\ call.lookup_invoked /\ call.lookup_failed) =>
        /\ call.lookup_result = << >>
        /\ citations_available[call.bot] = << >>

\* the author of the turn at position i (1-based) of an alternating log
AuthorAt(i) == IF i % 2 = 1 THEN "user" ELSE "assistant"

\* C12: in every variant, after any sequence of chat calls, the turns of
\* chat_history are by the user and the assistant in turn, the first by
\* the user, and the history holds two turns per chat call that returned.
C12_Alternation ==
    \A b \in Bots :
        /\ Len(chat_history[b]) = 2 * chat_calls[b]
        /\ \A i \in 1..Len(chat_history[b]) : chat_history[b][i].author = AuthorAt(i)

\* a bot after two calls that returned, the second one with a failed step
C12_Witness ==
    /\ Called /\ call.caught /\ ~call.raised
    /\ chat_calls[call.bot] = 2
    /\ Len(History) = 4

IsPrefix(a, b) == Len(a) <= Len(b) /\ SubSeq(b, 1, Len(a)) = a

\* C13: the chat history of every bot before a step is a prefix of its
\* history after the step: no turn is removed, reordered or given another
\* author, text or citations, and the log is never truncated.
C13_AppendOnly ==
    [][\A b \in Bots : IsPrefix(chat_history[b], chat_history'[b])]_vars

\* a call appended its two turns behind the turns of an earlier call whose
\* answer was a different one
C13_Witness ==
    /\ Called /\ ~call.raised
    /\ Len(History) = 4
    /\ History[2] # History[4]
    /\ History[4].message = call.ret_message

\* the bots other than the one a step constructs or calls
Bystanders ==
    {b \in built : \/ built' # built
                   \/ ncalls' # ncalls /\ call'.bot # b}

\* C14: a step on one bot, its construction or a chat call, leaves the
\* chat history, the staged corpus and the provider message list of every
\* other bot unchanged, and the library state that the other bot reads.
C14_NoSharedState ==
    [][\A b \in Bystanders :
          /\ chat_history'[b] = chat_history[b]
          /\ citations_available'[b] = citations_available[b]
          /\ b \in OpenAIBots => openai_messages'[b] = openai_messages[b]
          /\ EnvironmentRead(provider_env', b) = EnvironmentRead(provider_env, b)]_vars

\* the three bots are built, one bot has answered with a corpus staged and
\* then another bot was called, which staged none
C14_Witness ==
    /\ Called /\ built = Bots
    /\ provider_env = Environment(Environment(NoEnvironment, "OpenAI"), "PaLM")
    /\ \E b \in Bots \ {call.bot} :
          /\ Len(chat_history[b]) = 2
          /\ citations_available[b] # << >>
          /\ citations_available[call.bot] = << >>
          /\ Len(History) = 2

\* a chat call was made in this step and its lookup completed
LookupCompleted == ncalls' # ncalls /\ call'.lookup_done

QuotePlaces(s) == SelectSeq([i \in 1..Len(s) |-> i], LAMBDA i : s[i] = DQ)

\* what stands between the first and the second quote, the third and the
\* fourth, and so on
PairedContents(s, places) ==
    [k \in 1..(Len(places) \div 2) |->
        SubSeq(s, places[2 * k - 1] + 1, places[2 * k] - 1)]

\* C16: with the default pattern the references extracted from a text are
\* the contents between its successive pairs of double quotes, from left to
\* right, duplicates and empty contents kept; a text without a quoted span
\* gives the empty sequence and a last quote without partner gives nothing.
C16_References ==
    (Done /\ Res.findall_called) =>
        /\ ~Res.raised
        /\ Res.names_list =
              PairedContents(resolve.bot_message, QuotePlaces(resolve.bot_message))

\* a text with the same quoted word twice and one more quote behind it
C16_Witness ==
    /\ Done /\ Res.findall_called
    /\ Len(QuotePlaces(resolve.bot_message)) = 5
    /\ Res.names_list = <<<<"a">>, <<"a">>>>

(***************************************************************************)
(* Properties of quoted titles (checked under SpecVerbatim).               *)
(***************************************************************************)
\* the indices of the records whose title is the reference, letter case aside
EqualTo(name) == {i \in Indices : Lower(Corpus[i + 1][citation_field]) = Lower(name)}
LeastOf(S) == CHOOSE i \in S : \A j \in S : i <= j
IsCited(i) ==
    /\ i \in RangeOf(ExplicitKeys)
    /\ Corpus[i + 1] \in RangeOf(Res.citations)

\* C17 (as claimed): with a non-empty corpus and a threshold above 0 and up
\* to 1, for every quoted reference of the reply that equals, letter case
\* aside, the title of a record, the record of lowest index with that title
\* is returned, as a citation of the explicit phase.
C17_VerbatimTitle ==
    (Done /\ Corpus # << >> /\ Threshold > 0 /\ Threshold <= 100) =>
        \A n \in 1..Len(Res.names_list) :
            EqualTo(Res.names_list[n]) # {} => IsCited(LeastOf(EqualTo(Res.names_list[n])))

(***************************************************************************)
(* Properties of compare_strings (checked under SpecCompare).              *)
(***************************************************************************)
Compared == compared.state = "done"
SixMethods ==
    {"ratio", "partial_ratio", "token_sort_ratio", "token_set_ratio",
     "partial_token_sort_ratio", "partial_token_set_ratio"}

\* C18 (as claimed): for every string s, the empty one and those of
\* whitespace or punctuation only included, and each of the six methods,
\* compare_strings(s, s, method, case_sensitive=True) is 1.0.
C18_Identity ==
    (/\ Compared /\ compared.case_sensitive
     /\ compared.s1 = compared.s2
     /\ compared.fuzzy_method \in SixMethods) =>
        /\ compared.outcome.raised = "none"
        /\ compared.outcome.similarity = 100

\* C19: a call of compare_strings with a method name outside the six fails
\* with an error and returns no similarity; with one of the six names it
\* does not fail and returns a similarity between 0 and 1.
C19_MethodNames ==
    Compared =>
        IF compared.fuzzy_method \in SixMethods
        THEN /\ compared.outcome.raised = "none"
             /\ compared.outcome.similarity \in 0..100
        ELSE /\ compared.outcome.raised = "AssertionError"
             /\ compared.outcome.similarity = -1

\* a call with an unknown method name, on two strings that ratio would
\* score above 0, has failed
C19_Witness ==
    /\ Compared
    /\ compared.fuzzy_method = "jaro"
    /\ ratio(compared.s1, compared.s2) > 0
    /\ compared.s1 # compared.s2
    /\ compared.outcome.raised = "AssertionError"

(***************************************************************************)
(* Properties of the session export (checked under SpecExport).            *)
(***************************************************************************)
\* json.loads of an exported turn, and of the exported text: the turns of
\* each session
LoadTurn(o) ==
    IF o.author = "user"
    THEN [author |-> o.author, message |-> o.message, citations |-> << >>]
    ELSE [author |-> o.author, message |-> o.message, citations |-> o.citations]
LoadMessages(messages) == [n \in 1..Len(messages) |-> LoadTurn(messages[n])]
LoadSessions(objects) == [n \in 1..Len(objects) |-> LoadMessages(objects[n].messages)]
json_loads_sessions(json_data) == LoadSessions(SubSeq(json_data, 2, Len(json_data) - 1))
HistoriesOf(sessions) == [n \in 1..Len(sessions) |-> chat_history[sessions[n]]]

\* C20 (as claimed): an export of the sessions does not fail, and its JSON
\* text parsed back gives, session by session, the turns of the bot's chat
\* history in their order, with their author, message and citations.
C20_ExportRoundTrip ==
    [][download' # download =>
          /\ download'.raised = "none"
          /\ json_loads_sessions(download'.json_data) = HistoriesOf(Sessions(built))]_vars

(***************************************************************************)
(* Properties of the recorded log and of the values returned (checked      *)
(* under Spec).                                                            *)
(***************************************************************************)
AssistantTurns(b) == {n \in 1..Len(chat_history[b]) : chat_history[b][n].author = "assistant"}

\* C22: when the filter flag is set and the no-citation message holds no
\* double quote, every assistant turn of every chat history whose text
\* holds a double quote has at least one citation.
C22_QuotedIsCited ==
    (/\ settings.filter_bot_messages_without_citations
     /\ ~HasQuote(settings.error_message_bot_message_without_citations)) =>
        \A b \in Bots : \A n \in AssistantTurns(b) :
            HasQuote(chat_history[b][n].message) => chat_history[b][n].citations # << >>

\* one bot recorded a quoted reply with its citation and, in another call,
\* the no-citation message in place of a general error message that holds
\* a double quote
C22_Witness ==
    /\ settings.filter_bot_messages_without_citations
    /\ ~HasQuote(settings.error_message_bot_message_without_citations)
    /\ Called /\ call.caught /\ ~call.raised
    /\ HasQuote(settings.error_message_general)
    /\ LastOf(History).message = settings.error_message_bot_message_without_citations
    /\ \E n \in AssistantTurns(call.bot) :
          /\ HasQuote(History[n].message)
          /\ History[n].citations # << >>

\* the turn a chat call that returned has appended last
Returned == Called /\ ~call.raised
NewTurn == LastOf(History)

\* C23: after every chat call that returned, every citation of the
\* assistant turn it recorded is a record of the corpus that was staged
\* when the reply was resolved, and that corpus is still the staged corpus
\* of the bot after the call; a call that did not reach the reply has
\* recorded no citation.  Every assistant turn of a history is the turn
\* recorded last in the state after its call.
C23_Grounded ==
    (Returned /\ settings.citation_threshold > 0) =>
        /\ \A k \in 1..Len(NewTurn.citations) :
              NewTurn.citations[k] \in RangeOf(call.corpus_used)
        /\ call.generation_reached => citations_available[call.bot] = call.corpus_used
        /\ ~call.generation_reached => NewTurn.citations = << >>

\* the second call of a bot made no lookup, and its reply was resolved
\* against the records staged by the first call: with the low threshold
\* one quoted title cites two records
C23_Witness ==
    /\ Returned
    /\ settings.citation_threshold = low_citation_threshold
    /\ Len(History) = 4
    /\ ~call.lookup_done
    /\ Len(NewTurn.citations) = 2
    /\ RangeOf(NewTurn.citations) = RangeOf(call.corpus_used)

\* the role of the entry at position i (1-based) of a well-formed provider
\* message list
RoleAt(i) == IF i = 1 THEN "system" ELSE IF i % 2 = 0 THEN "user" ELSE "assistant"

\* C24 (as claimed): after any sequence of chat calls the provider message
\* list of the BotOpenAI bot is the system entry followed by user and
\* assistant entries in turn, also after calls in which an LLM call raised.
C24_ProviderMessages ==
    "OpenAI" \in built =>
        /\ Len(openai_messages["OpenAI"]) % 2 = 1
        /\ \A i \in 1..Len(openai_messages["OpenAI"]) :
              openai_messages["OpenAI"][i].role = RoleAt(i)

\* C25: after every chat call that returned, in every variant, the text
\* and the citations returned are those of the last turn of the chat
\* history of the bot, that turn is by the assistant, and the turn before
\* it is the user turn of the call.
C25_ReturnAgreesWithLog ==
    Returned =>
        /\ Len(History) >= 2
        /\ NewTurn.author = "assistant"
        /\ NewTurn.message = call.ret_message
        /\ NewTurn.citations = call.ret_citations
        /\ History[Len(History) - 1] = UserTurn(call.user_message)

\* the second call of a bot returned a quoted reply with a citation, after
\* a first call that returned another text
C25_Witness ==
    /\ Returned
    /\ Len(History) = 4
    /\ call.ret_citations # << >>
    /\ HasQuote(call.ret_message)
    /\ History[2].message # call.ret_message
    /\ HasQuote(call.user_message)

(***************************************************************************)
(* Properties of the function schema (checked under SpecSchema).           *)
(***************************************************************************)
SchemaBuilt == schema.state = "done"
Schema == schema.json_output
\* the properties dict that a parameter list stands for: one item per
\* parameter, in the order of the list
ExpectedProperties(parameters) ==
    [n \in 1..Len(parameters) |->
        [key |-> parameters[n].name, value |-> PropertyEntry(parameters[n].descr_or_enum)]]

\* C26 (as claimed): for every list of parameters with distinct names, the
\* empty list and the list of one included, __json__ does not fail, its
\* 'properties' is a dict with one key per parameter mapped to the entry
\* of that parameter, and 'required' lists the names flagged required.
C26_Schema ==
    SchemaBuilt =>
        /\ Schema.raised = "none"
        /\ Schema.properties.class = "dict"
        /\ Schema.properties.items = ExpectedProperties(schema.parameters)
        /\ Schema.required = RequiredNames(schema.parameters)

====
